---- MODULE Spec2Model ----
(***************************************************************************)
(* Worker session control protocol of agent_co.                            *)
(*                                                                         *)
(*   ClaudeCodeClient (workers/claude-code-client.ts): startSession,       *)
(*   continueSession, killSession, consumeGenerator, processMessage,       *)
(*   pushBlock, waitForBlock and the canUseTool permission callback.       *)
(*   VP tools (vp/agent.ts): start_worker, continue_worker, kill_worker.   *)
(*   git.ts: createWorktree, removeWorktree.                               *)
(*   VP loop (vp/loop.ts): runVP, its turns, the context-limit restart,    *)
(*   the timeout; mark_done (vp/agent.ts).                                 *)
(*   EventQueue (event-queue.ts): push, dequeue, tryDequeue.               *)
(*                                                                         *)
(* JavaScript runs every handler to its next await without interruption,   *)
(* so one action is one such run.  A call suspended in waitForBlock is the *)
(* waiter record stored in blockWaiter; the code that follows the await    *)
(* (Resume) runs when pushBlock hands the block to that waiter.            *)
(***************************************************************************)
EXTENDS Integers, Sequences, FiniteSets, TLC

\* ------------------------------------------------------------------ bounds
MaxSessions == 4        \* sessions ever created through start_worker
MaxReq == 2             \* permission requests raised by all runtimes together
MaxFrag == 1            \* narration fragments emitted by all runtimes together
MaxLoopWorkers == 1     \* workers started while the VP loop is followed
MaxTicks == 4           \* clock ticks followed
MaxPairWorkers == 2     \* workers started side by side, and branch names given
MaxCalls == 3           \* dequeue and tryDequeue calls made on the EventQueue
MaxItems == 3           \* items pushed on the EventQueue

\* ------------------------------------------------------- program constants
MAX_WORKERS == 3
VP_TIMEOUT_MS == 600000
TOKEN_LIMIT == 150000

Threads == 1..MaxSessions
BogusId == 0            \* an id no session was ever created with
NoPending == [id |-> 0]
NoWaiter == [op |-> "none"]
NoMessage == "undefined"
Messages == {NoMessage, "", "X"}
DefaultDenyMessage == "VP denied this action"

VARIABLES
  \* ClaudeCodeClient
  sessions,           \* keys of the sessions map
  pendingPermission,  \* per session object: the pending request or NoPending
  collectedText,      \* per session object: narration since the last block
  finished,           \* per session object
  blockQueue,         \* per session object: ready blocks nobody waited for
  blockWaiter,        \* per session object: the suspended call, or NoWaiter
  nextThread,         \* number of session ids drawn from randomUUID
  \* worker runtime (the SDK query and its process)
  rt,                 \* "idle","running","blocked","resulted","ended","closed","gone"
  requests,           \* requests[r] = session that raised request r
  nfrag,              \* fragments emitted so far
  \* history
  resolveCalls,       \* resolveCalls[r] = times r's resolve was invoked
  sent,               \* the PermissionResult passed to a resolve in the last step
  approved,           \* requests the orchestrator answered with approve=true
  denied,             \* requests the orchestrator answered with approve=false
  performed,          \* requests whose action the runtime has executed
  abandoned,          \* requests that were pending when killSession ran
  ready,              \* per session: blocks in the order they became ready
  delivered,          \* per session: blocks in the order calls returned them
  ret,                \* the call that completed in the last step and its outcome
  pushed,             \* the block that became ready in the last step
  known,              \* session ids returned by startSession to its caller
  \* VP state (vp/agent.ts) and the repository's worktrees (git.ts)
  reg,                \* state.sessions: worker id -> WorkerSession
  issuing,            \* the VP is starting the tool calls of one step
  worktrees,          \* branches that have a checked-out worktree
  branches,           \* branches that exist in the repository
  \* runVP (vp/loop.ts)
  pc,                 \* "check","turn","flush","sleep","ended","crashed"
  done,               \* state.done
  totalTokens,        \* tokens counted by onStepFinish in this invocation
  now,                \* Date.now(), the first invocation starting at 0
  startTime,          \* startTime of the running invocation of runVP
  lastMessage,        \* what the last entry of messages is
  lastEvent,          \* the last event the loop logged
  \* EventQueue (event-queue.ts)
  queue,              \* this.queue
  resolve,            \* this.resolve: the call whose promise it settles, or none
  timers,             \* tryDequeue calls whose setTimeout timer is pending
  calls,              \* the dequeue and tryDequeue calls made, in order
  npush,              \* number of push calls made; item i is the i-th pushed
  handed              \* the items push and the dequeues have handed out, in order

vars == <<sessions, pendingPermission, collectedText, finished, blockQueue,
          blockWaiter, nextThread, rt, requests, nfrag, resolveCalls, sent, approved, denied,
          performed, abandoned, ready, delivered, ret, pushed, known, reg,
          issuing, worktrees, branches, pc, done, totalTokens, now,
          startTime, lastMessage, lastEvent, queue, resolve, timers, calls,
          npush, handed>>

loopVars == <<pc, done, totalTokens, now, startTime, lastMessage, lastEvent>>

\* A step of a tool or of a runtime leaves the loop's own variables alone.
LoopIdle == UNCHANGED loopVars

NoWorker == [status |-> "none"]
NoResult == [req |-> 0]
NoBlock == [kind |-> "none"]
NoRet == [op |-> "none", thread |-> BogusId, outcome |-> "none"]  \* no call completed in this step

\* The whole state as one record, so that the code's functions are state
\* transformers that compose in the order the code calls them.
Cur ==
  [sessions |-> sessions, pendingPermission |-> pendingPermission,
   collectedText |-> collectedText, finished |-> finished,
   blockQueue |-> blockQueue, blockWaiter |-> blockWaiter,
   nextThread |-> nextThread, rt |-> rt, requests |-> requests,
   nfrag |-> nfrag, resolveCalls |-> resolveCalls, sent |-> sent,
   approved |-> approved, denied |-> denied,
   performed |-> performed, abandoned |-> abandoned, ret |-> ret,
   pushed |-> pushed, known |-> known, reg |-> reg, issuing |-> issuing,
   worktrees |-> worktrees, branches |-> branches,
   queue |-> queue, resolve |-> resolve, timers |-> timers, calls |-> calls,
   npush |-> npush, handed |-> handed]

Becomes(S) ==
  /\ sessions' = S.sessions
  /\ pendingPermission' = S.pendingPermission
  /\ collectedText' = S.collectedText
  /\ finished' = S.finished
  /\ blockQueue' = S.blockQueue
  /\ blockWaiter' = S.blockWaiter
  /\ nextThread' = S.nextThread
  /\ rt' = S.rt
  /\ requests' = S.requests
  /\ nfrag' = S.nfrag
  /\ resolveCalls' = S.resolveCalls
  /\ sent' = S.sent
  /\ approved' = S.approved
  /\ denied' = S.denied
  /\ performed' = S.performed
  /\ abandoned' = S.abandoned
  /\ ret' = S.ret
  /\ pushed' = S.pushed
  /\ known' = S.known
  /\ reg' = S.reg
  /\ issuing' = S.issuing
  /\ worktrees' = S.worktrees
  /\ branches' = S.branches
  /\ queue' = S.queue
  /\ resolve' = S.resolve
  /\ timers' = S.timers
  /\ calls' = S.calls
  /\ npush' = S.npush
  /\ handed' = S.handed

Init ==
  /\ sessions = {}
  /\ pendingPermission = [t \in Threads |-> NoPending]
  /\ collectedText = [t \in Threads |-> <<>>]
  /\ finished = [t \in Threads |-> FALSE]
  /\ blockQueue = [t \in Threads |-> <<>>]
  /\ blockWaiter = [t \in Threads |-> NoWaiter]
  /\ nextThread = 0
  /\ rt = [t \in Threads |-> "idle"]
  /\ requests = <<>>
  /\ nfrag = 0
  /\ resolveCalls = <<>>
  /\ sent = NoResult
  /\ approved = {}
  /\ denied = {}
  /\ performed = {}
  /\ abandoned = {}
  /\ ready = [t \in Threads |-> <<>>]
  /\ delivered = [t \in Threads |-> <<>>]
  /\ ret = NoRet
  /\ pushed = NoBlock
  /\ known = {}
  /\ reg = [t \in Threads |-> NoWorker]
  /\ issuing = TRUE
  /\ worktrees = {}
  /\ branches = {}
  /\ pc = "check"
  /\ done = FALSE
  /\ totalTokens = 0
  /\ now = 0
  /\ startTime = 0
  /\ lastMessage = "context"
  /\ lastEvent = "vp_started"
  /\ queue = <<>>
  /\ resolve = [call |-> 0]
  /\ timers = {}
  /\ calls = <<>>
  /\ npush = 0
  /\ handed = <<>>

\* ------------------------------------------------------------------ blocks
\* A block is the text of one turn output: the narration collected so far
\* (joined with "\n") followed by what kind says.
\*   perm     : formatPermissionRequest(toolName, input, reason) of request req
\*   done     : "\n\n**DONE.** Final result:\n" + result
\*   error    : "\n\n**ERROR:** " + subtype or thrown error
\*   ended    : text || "(session ended)"
\*   finished : text || "(session finished)"
Block(kind, text, r) == [kind |-> kind, text |-> text, req |-> r, thread |-> 0]

\* The payload a request was raised with: distinct per request.
ToolInputOf(r) == r

formatPermissionRequest(r) == Block("perm", <<>>, r)

\* content.includes('**DONE.**'): the marker of a successful result block.
ContainsDoneMarker(b) == b.kind = "done"

\* -------------------------------------------------- the suspended callers
\* The code that runs after `await waitForBlock(session)` returned block b to
\* the call described by waiter w.
Resume(S, t, w, b) ==
  LET S1 == [S EXCEPT !.ret = [op |-> w.op, thread |-> t, outcome |-> "ok",
                               block |-> b]]
  IN CASE w.op = "startSession" ->
            [S1 EXCEPT !.known = @ \cup {t}]
       [] w.op = "start_worker" ->
            [S1 EXCEPT !.reg[t] = [branch |-> w.branch, status |-> "active"]]
       [] w.op = "continue_worker" ->
            IF ContainsDoneMarker(b)
              THEN [S1 EXCEPT !.reg[t].status = "done"]
              ELSE S1
       [] OTHER -> S1

\* Variant: the block handed to the waiter is queued as well.
pushBlock_alsoQueued(S, t, content) ==
  LET S1 == [S EXCEPT !.pushed = [content EXCEPT !.thread = t],
                      !.blockQueue[t] = Append(@, content)]
  IN IF S1.blockWaiter[t].op # "none"
       THEN Resume([S1 EXCEPT !.blockWaiter[t] = NoWaiter], t,
                   S1.blockWaiter[t], content)
       ELSE S1

pushBlock(S, t, content) ==
  LET S1 == [S EXCEPT !.pushed = [content EXCEPT !.thread = t]]
  IN IF S1.blockWaiter[t].op # "none"
       THEN Resume([S1 EXCEPT !.blockWaiter[t] = NoWaiter], t,
                   S1.blockWaiter[t], content)
       ELSE [S1 EXCEPT !.blockQueue[t] = Append(@, content)]

\* Variant: with an empty queue the call returns at once with an empty block.
waitForBlock_noWait(S, t, w) ==
  IF Len(S.blockQueue[t]) > 0
    THEN Resume([S EXCEPT !.blockQueue[t] = Tail(@)], t, w,
                Head(S.blockQueue[t]))
    ELSE Resume(S, t, w, Block("ended", <<>>, 0))

waitForBlock(S, t, w) ==
  IF Len(S.blockQueue[t]) > 0
    THEN Resume([S EXCEPT !.blockQueue[t] = Tail(@)], t, w,
                Head(S.blockQueue[t]))
    ELSE [S EXCEPT !.blockWaiter[t] = w]

\* ----------------------------------------------------- the worker runtime
\* What the runtime does with the result its permission callback returned:
\* it runs the action on allow, skips it on deny, and goes on executing.
\* A promise settles once: a later call of resolve has no effect on it.
RuntimeReceives(S, r, result) ==
  LET t == S.requests[r]
      S1 == [S EXCEPT !.resolveCalls[r] = @ + 1,
                      !.sent = [req |-> r, result |-> result]]
  IN IF S.resolveCalls[r] = 0 /\ S.rt[t] = "blocked"
       THEN [S1 EXCEPT !.rt[t] = "running",
                       !.performed = IF result.behavior = "allow"
                                       THEN @ \cup {r} ELSE @]
       ELSE S1

\* Variant: the callback returns an already settled promise.
PermissionPromise_settled(S, t) == S

\* The promise canUseTool returns is settled by resolve only: until then the
\* runtime stays inside the callback.
PermissionPromise(S, t) == [S EXCEPT !.rt[t] = "blocked"]

\* Variant: the narration given to the block stays in the buffer.
canUseTool_keepsText(S, t) ==
  LET r == Len(S.requests) + 1
      text == S.collectedText[t]
      description == formatPermissionRequest(r)
      content == [description EXCEPT !.text = text]
      S1 == [S EXCEPT !.requests = Append(@, t),
                      !.resolveCalls = Append(@, 0)]
      S2 == [S1 EXCEPT !.pendingPermission[t] = [id |-> r]]
  IN PermissionPromise(pushBlock(S2, t, content), t)

canUseTool(S, t) ==
  LET r == Len(S.requests) + 1
      text == S.collectedText[t]
      description == formatPermissionRequest(r)
      content == [description EXCEPT !.text = text]
      S1 == [S EXCEPT !.requests = Append(@, t),
                      !.resolveCalls = Append(@, 0),
                      !.collectedText[t] = <<>>]
      S2 == [S1 EXCEPT !.pendingPermission[t] = [id |-> r]]
  IN PermissionPromise(pushBlock(S2, t, content), t)

\* ------------------------------------------------------- ClaudeCodeClient
\* Variant: a call that waits when the stream ends is not woken.
consumeGeneratorEnd_noWake(S, t, threw) ==
  LET S1 == IF threw
              THEN pushBlock([S EXCEPT !.collectedText[t] = <<>>], t,
                             Block("error", S.collectedText[t], 0))
              ELSE S
  IN [S1 EXCEPT !.finished[t] = TRUE]

\* The tail of consumeGenerator that runs when the for-await loop is left:
\* through the catch clause when the stream threw, directly when it ended.
consumeGeneratorEnd(S, t, threw) ==
  LET S1 == IF threw
              THEN pushBlock([S EXCEPT !.collectedText[t] = <<>>], t,
                             Block("error", S.collectedText[t], 0))
              ELSE S
      S2 == [S1 EXCEPT !.finished[t] = TRUE]
  IN IF S2.blockWaiter[t].op # "none"
       THEN pushBlock([S2 EXCEPT !.collectedText[t] = <<>>], t,
                      Block("ended", S2.collectedText[t], 0))
       ELSE S2

processMessage(S, t, msg) ==
  CASE msg.type = "assistant" ->
         [S EXCEPT !.collectedText[t] = Append(@, msg.text)]
    [] msg.type = "result" ->
         pushBlock([S EXCEPT !.collectedText[t] = <<>>], t,
                   Block(IF msg.ok THEN "done" ELSE "error",
                         S.collectedText[t], 0))
    [] msg.type = "tool_use_summary" ->
         [S EXCEPT !.collectedText[t] = Append(@, msg.summary)]
    [] OTHER -> S

startSession(S, w) ==
  LET t == S.nextThread + 1
      S1 == [S EXCEPT !.nextThread = t,
                      !.pendingPermission[t] = NoPending,
                      !.collectedText[t] = <<>>,
                      !.finished[t] = FALSE,
                      !.blockQueue[t] = <<>>,
                      !.blockWaiter[t] = NoWaiter,
                      !.rt[t] = "running",
                      !.sessions = @ \cup {t}]
  IN waitForBlock(S1, t, w)

\* Variant: the decision is not looked at.
PermissionResult_alwaysAllow(r, approve, message) ==
  [behavior |-> "allow", updatedInput |-> ToolInputOf(r)]

\* Variant: the denial carries the message as it was given, or none.
PermissionResult_rawMessage(r, approve, message) ==
  IF approve
    THEN [behavior |-> "allow", updatedInput |-> ToolInputOf(r)]
    ELSE [behavior |-> "deny",
          message |-> IF message = NoMessage THEN "" ELSE message]

\* Variant: the approval carries an empty payload.
PermissionResult_emptyInput(r, approve, message) ==
  IF approve
    THEN [behavior |-> "allow", updatedInput |-> 0]
    ELSE [behavior |-> "deny",
          message |-> IF message \in {NoMessage, ""}
                        THEN DefaultDenyMessage ELSE message]

\* The PermissionResult continueSession passes to resolve.
PermissionResult(r, approve, message) ==
  IF approve
    THEN [behavior |-> "allow", updatedInput |-> ToolInputOf(r)]
    ELSE [behavior |-> "deny",
          message |-> IF message \in {NoMessage, ""}
                        THEN DefaultDenyMessage ELSE message]

\* A thrown error is the call's outcome; the state is left as it was.
Throw(S, op, t, error) == [S EXCEPT !.ret = [op |-> op, thread |-> t, outcome |-> error]]

\* Variant: the pending request stays registered after it was resolved.
continueSession_keepsPending(S, t, approve, message, w) ==
  IF t \notin S.sessions
    THEN Throw(S, w.op, t, "Session not found")
  ELSE IF S.pendingPermission[t].id = 0
    THEN Throw(S, w.op, t, "No pending permission")
  ELSE
    LET pending == S.pendingPermission[t]
        S1 == [S EXCEPT !.approved = IF approve THEN @ \cup {pending.id}
                                                ELSE @,
                        !.denied = IF approve THEN @
                                              ELSE @ \cup {pending.id}]
        S2 == RuntimeReceives(S1, pending.id,
                              PermissionResult(pending.id, approve, message))
    IN IF S2.finished[t] /\ Len(S2.blockQueue[t]) = 0
         THEN LET b == Block("finished", S2.collectedText[t], 0)
              IN [S2 EXCEPT !.ret = [op |-> w.op, thread |-> t,
                                     outcome |-> "ok", block |-> b]]
         ELSE waitForBlock(S2, t, w)

\* Variant: a call without a pending request resolves nothing and waits.
continueSession_noPendingCheck(S, t, approve, message, w) ==
  IF t \notin S.sessions
    THEN Throw(S, w.op, t, "Session not found")
  ELSE IF S.pendingPermission[t].id = 0
    THEN waitForBlock(S, t, w)
  ELSE continueSession_keepsPending(
         [S EXCEPT !.pendingPermission[t] = NoPending], t, approve, message, w)

\* Variant: a finished session with an empty queue is waited on like any other.
continueSession_noFinishedCheck(S, t, approve, message, w) ==
  IF t \notin S.sessions
    THEN Throw(S, w.op, t, "Session not found")
  ELSE IF S.pendingPermission[t].id = 0
    THEN Throw(S, w.op, t, "No pending permission")
  ELSE
    LET pending == S.pendingPermission[t]
        S1 == [S EXCEPT !.pendingPermission[t] = NoPending,
                        !.approved = IF approve THEN @ \cup {pending.id}
                                                ELSE @,
                        !.denied = IF approve THEN @
                                              ELSE @ \cup {pending.id}]
        S2 == RuntimeReceives(S1, pending.id,
                              PermissionResult(pending.id, approve, message))
    IN waitForBlock(S2, t, w)

continueSession(S, t, approve, message, w) ==
  IF t \notin S.sessions
    THEN Throw(S, w.op, t, "Session not found")
  ELSE IF S.pendingPermission[t].id = 0
    THEN Throw(S, w.op, t, "No pending permission")
  ELSE
    LET pending == S.pendingPermission[t]
        S1 == [S EXCEPT !.pendingPermission[t] = NoPending,
                        !.approved = IF approve THEN @ \cup {pending.id}
                                                ELSE @,
                        !.denied = IF approve THEN @
                                              ELSE @ \cup {pending.id}]
        S2 == RuntimeReceives(S1, pending.id,
                              PermissionResult(pending.id, approve, message))
    IN IF S2.finished[t] /\ Len(S2.blockQueue[t]) = 0
         THEN LET b == Block("finished", S2.collectedText[t], 0)
              IN [S2 EXCEPT !.ret = [op |-> w.op, thread |-> t,
                                     outcome |-> "ok", block |-> b]]
         ELSE waitForBlock(S2, t, w)

\* Variant: close() leaves the process running.
close_noEffect(S, t) == S

\* queryHandle.close(): the process is terminated and its stream ends.
close(S, t) ==
  IF S.rt[t] \in {"running", "blocked", "resulted"}
    THEN [S EXCEPT !.rt[t] = "closed"]
    ELSE S

\* Variant: the session stays in the sessions map.
killSession_keepsEntry(S, t) ==
  IF t \notin S.sessions \/ S.finished[t]
    THEN S
    ELSE LET S1 == close(S, t)
         IN [S1 EXCEPT !.finished[t] = TRUE,
                       !.abandoned = IF S.pendingPermission[t].id # 0
                                       THEN @ \cup {S.pendingPermission[t].id}
                                       ELSE @]

\* Variant: every session object is marked finished.
killSession_finishesAll(S, t) ==
  IF t \notin S.sessions
    THEN S
    ELSE LET S1 == close(S, t)
         IN [S1 EXCEPT !.finished = [u \in Threads |-> TRUE],
                       !.sessions = @ \ {t},
                       !.abandoned = IF S.pendingPermission[t].id # 0
                                       THEN @ \cup {S.pendingPermission[t].id}
                                       ELSE @]

killSession(S, t) ==
  IF t \notin S.sessions
    THEN S
    ELSE LET S1 == close(S, t)
         IN [S1 EXCEPT !.finished[t] = TRUE,
                       !.sessions = @ \ {t},
                       !.abandoned = IF S.pendingPermission[t].id # 0
                                       THEN @ \cup {S.pendingPermission[t].id}
                                       ELSE @]

\* ---------------------------------------------------------------- actions
\* Every step starts with no call having completed in it.
S0 == [Cur EXCEPT !.ret = NoRet, !.sent = NoResult, !.pushed = NoBlock]

\* --- the runtime's event stream, drained by consumeGenerator
RuntimeAssistant(t) ==
  /\ rt[t] = "running" /\ nfrag < MaxFrag
  /\ Becomes(processMessage([S0 EXCEPT !.nfrag = @ + 1], t,
                            [type |-> "assistant", text |-> nfrag + 1]))

RuntimeToolSummary(t) ==
  /\ rt[t] = "running" /\ nfrag < MaxFrag
  /\ Becomes(processMessage([S0 EXCEPT !.nfrag = @ + 1], t,
                            [type |-> "tool_use_summary", summary |-> nfrag + 1]))

RuntimeCanUseTool(t) ==
  /\ rt[t] = "running" /\ Len(requests) < MaxReq
  /\ Becomes(canUseTool(S0, t))

RuntimeResult(t) ==
  /\ rt[t] = "running"
  /\ \E ok \in BOOLEAN :
       Becomes(processMessage([S0 EXCEPT !.rt[t] = "resulted"], t,
                              [type |-> "result", ok |-> ok]))

\* The stream ends or fails: after its result, or because the process exits
\* or crashes at any point, also while it waits inside the callback.
StreamEnd(t) ==
  /\ rt[t] \in {"running", "blocked", "resulted"}
  /\ Becomes(consumeGeneratorEnd([S0 EXCEPT !.rt[t] = "ended"], t, FALSE))

StreamThrow(t) ==
  /\ rt[t] \in {"running", "blocked", "resulted"}
  /\ Becomes(consumeGeneratorEnd([S0 EXCEPT !.rt[t] = "ended"], t, TRUE))

\* After close() the for-await loop of consumeGenerator is left.
StreamClosed(t) ==
  /\ rt[t] = "closed"
  /\ \E threw \in BOOLEAN :
       Becomes(consumeGeneratorEnd([S0 EXCEPT !.rt[t] = "gone"], t, threw))

\* --- calls made on the client directly
StartSessionCall ==
  /\ nextThread = 0
  /\ Becomes(startSession(S0, [op |-> "startSession"]))

ContinueSessionCall(t, approve, message) ==
  Becomes(continueSession(S0, t, approve, message, [op |-> "continueSession"]))

KillSessionCall(t) ==
  Becomes([killSession(S0, t) EXCEPT !.ret = [op |-> "killSession", thread |-> t,
                                              outcome |-> "ok"]])

\* The histories: a block becomes ready when pushBlock is given it, or when
\* continueSession makes up the trailing block of a finished session; it is
\* delivered when a call returns it.
ReturnedBlock == ret'.op # "none" /\ ret'.outcome = "ok" /\ ret'.op # "killSession"

Logged ==
  /\ ready' =
       IF pushed'.kind # "none"
         THEN [ready EXCEPT ![pushed'.thread] = Append(@, [pushed' EXCEPT !.thread = 0])]
       ELSE IF ReturnedBlock /\ ret'.block.kind = "finished"
         THEN [ready EXCEPT ![ret'.thread] = Append(@, ret'.block)]
       ELSE ready
  /\ delivered' =
       IF ReturnedBlock
         THEN [delivered EXCEPT ![ret'.thread] = Append(@, ret'.block)]
         ELSE delivered

Unlogged == UNCHANGED <<ready, delivered>>

ClientNext ==
  \/ StartSessionCall /\ Logged /\ LoopIdle
  \/ \E t \in known \cup {BogusId}, approve \in BOOLEAN, message \in Messages :
       ContinueSessionCall(t, approve, message) /\ Logged /\ LoopIdle
  \/ \E t \in known : KillSessionCall(t) /\ Logged /\ LoopIdle
  \/ \E t \in Threads : RuntimeAssistant(t) /\ Logged /\ LoopIdle
  \/ \E t \in Threads : RuntimeToolSummary(t) /\ Logged /\ LoopIdle
  \/ \E t \in Threads : RuntimeCanUseTool(t) /\ Logged /\ LoopIdle
  \/ \E t \in Threads : RuntimeResult(t) /\ Logged /\ LoopIdle
  \/ \E t \in Threads : StreamEnd(t) /\ Logged /\ LoopIdle
  \/ \E t \in Threads : StreamThrow(t) /\ Logged /\ LoopIdle
  \/ \E t \in Threads : StreamClosed(t) /\ Logged /\ LoopIdle

\* One session driven through the client's own interface, as the client's
\* unit tests drive it.
ClientSpec == Init /\ [][ClientNext]_vars

\* ------------------------------------------------------ claims C1 .. C4
Raised == 1..Len(requests)
RaisedBy(t) == {r \in Raised : requests[r] = t}
Unresolved(t) == {r \in RaisedBy(t) : resolveCalls[r] = 0}
IsPrefix(a, b) == Len(a) <= Len(b) /\ \A i \in 1..Len(a) : a[i] = b[i]
Kinds(log) == [i \in 1..Len(log) |-> log[i].kind]

\* C1: the runtime has performed the action of a request only if the
\* orchestrator answered that very request with approve=true and the resolve
\* of the request was invoked; a request that was denied, that is still
\* pending, or that killSession abandoned, has not been performed.
C1_OnlyApprovedActionsRun ==
  \A r \in Raised :
    /\ r \in performed => r \in approved /\ resolveCalls[r] > 0
    /\ r \in denied \cup abandoned => r \notin performed
    /\ (\E t \in Threads : pendingPermission[t].id = r /\ resolveCalls[r] = 0)
         => r \notin performed

C1_Witness ==
  \E r1 \in performed, r2 \in denied : r1 # r2 /\ requests[r1] = requests[r2]

\* C2: every session has at most one permission request whose resolve was not
\* invoked yet, so a request that is registered never takes the place of an
\* unresolved one.
C2_AtMostOneUnresolved ==
  \A t \in Threads : Cardinality(Unresolved(t)) <= 1

C2_Witness ==
  \E t \in Threads :
    /\ Cardinality(RaisedBy(t)) = 2
    /\ Cardinality(Unresolved(t)) = 1
    /\ pendingPermission[t].id \in Unresolved(t)

\* C3: the resolve of a request is invoked at most once, and a continueSession
\* call on a session whose latest request was resolved already ends with an
\* error and resolves nothing.
AnsweredAlready(t) ==
  /\ RaisedBy(t) # {}
  /\ \A r \in RaisedBy(t) : resolveCalls[r] > 0

C3_ResolveAtMostOnce ==
  /\ [](\A r \in Raised : resolveCalls[r] <= 1)
  /\ [][\A t \in Threads, approve \in BOOLEAN, message \in Messages :
          (AnsweredAlready(t) /\ ContinueSessionCall(t, approve, message))
            => /\ ret'.outcome \in {"Session not found", "No pending permission"}
               /\ sent' = NoResult
               /\ resolveCalls' = resolveCalls]_vars

C3_Witness ==
  /\ ret.op = "continueSession" /\ ret.outcome = "No pending permission"
  /\ \E r \in RaisedBy(ret.thread) : resolveCalls[r] = 1

\* C4: the blocks the calls on a session have returned are the first blocks
\* that became ready on that session, in the order they became ready.
C4_BlocksInReadyOrder ==
  \A t \in Threads : IsPrefix(delivered[t], ready[t])

C4_Witness ==
  \E t \in Threads :
    /\ Kinds(delivered[t]) = <<"perm", "perm", "done">>
    /\ delivered[t][1].req # delivered[t][2].req
    /\ delivered[t] = ready[t]

\* ----------------------------------------------------- claims C7 .. C10
\* consumeGenerator goes on when the stream it awaits has been closed.
FairClientSpec ==
  ClientSpec /\ \A t \in Threads : WF_vars(StreamClosed(t) /\ Logged /\ LoopIdle)

Killed(t) == t \in known /\ t \notin sessions

C8_KilledRequestAbandoned ==
  \A r \in abandoned :
    /\ resolveCalls[r] = 0
    /\ r \notin performed
    /\ rt[requests[r]] \notin {"running", "blocked", "resulted"}

C8_Witness ==
  /\ ret.op = "continueSession" /\ ret.outcome = "Session not found"
  /\ \E r \in abandoned : requests[r] = ret.thread

\* C9: pendingPermission of a session is set exactly when its runtime is
\* suspended in the permission callback and the session is neither finished
\* nor killed.
AwaitingDecision(t) == rt[t] = "blocked" /\ ~finished[t] /\ t \in sessions

C9_PendingIffAwaiting ==
  \A t \in 1..nextThread :
    (pendingPermission[t].id # 0) <=> AwaitingDecision(t)

\* C10: a continueSession call on an id that is not in the sessions map, or
\* on a session without a pending request, ends in that step with an error,
\* installs no waiter, resolves nothing and leaves the session as it was.
C10_ContinueWithoutPendingFails ==
  [][\A t \in Threads \cup {BogusId}, approve \in BOOLEAN, message \in Messages :
       ((t \notin sessions \/ pendingPermission[t].id = 0)
          /\ ContinueSessionCall(t, approve, message))
         => /\ ret'.op = "continueSession" /\ ret'.thread = t
            /\ ret'.outcome = IF t \in sessions THEN "No pending permission"
                                                ELSE "Session not found"
            /\ sent' = NoResult
            /\ UNCHANGED <<sessions, pendingPermission, collectedText, finished,
                           blockQueue, blockWaiter, rt, resolveCalls,
                           performed>>]_vars

C10_Witness ==
  /\ ret.op = "continueSession" /\ ret.outcome = "No pending permission"
  /\ ret.thread \in sessions /\ ~finished[ret.thread]

\* ------------------------------------------------ claims C11, C19, C20
StreamOver(t) == rt[t] = "ended"

ErrorQueued(t) ==
  \E i \in 1..Len(blockQueue[t]) : blockQueue[t][i].kind = "error"

\* C19: a failure of the stream is handed as an error block to the call that
\* is suspended on the session, and otherwise the next continueSession call
\* on the session returns the error block that was queued.
C19_StreamFailureDelivered ==
  [][/\ \A t \in Threads :
          (blockWaiter[t].op # "none" /\ StreamThrow(t))
            => /\ ret'.thread = t /\ ret'.outcome = "ok"
               /\ ret'.block.kind = "error"
     /\ \A t \in Threads, approve \in BOOLEAN, message \in Messages :
          (/\ t \in sessions /\ ErrorQueued(t)
           /\ ContinueSessionCall(t, approve, message))
            => /\ ret'.outcome = "ok"
               /\ ret'.block.kind = "error"]_vars

\* C20: a call that returns normally returns one block, which is the next
\* block of its session in the order the blocks became ready and which no
\* earlier call has returned; startSession returns the first one; a step in
\* which no call returns delivers nothing.
C20_OneReadyBlockPerCall ==
  [][IF ReturnedBlock
       THEN LET t == ret'.thread
                n == Len(delivered[t]) + 1
            IN /\ Len(delivered'[t]) = n
               /\ n <= Len(ready'[t])
               /\ ready'[t][n] = ret'.block
               /\ ret'.op = "startSession" => n = 1
               /\ \A u \in Threads \ {t} : delivered'[u] = delivered[u]
       ELSE delivered' = delivered]_vars

C20_Witness ==
  /\ ret.op = "startSession" /\ ret.outcome = "ok"
  /\ ret.block.kind = "done"
  /\ delivered[ret.thread] = <<ret.block>>
  /\ ready[ret.thread] = <<ret.block>>

\* ------------------------------------------------------------------ git.ts
\* `git worktree add -b <branch> <path>` fails when the branch or the path
\* exists already; the path is worktreeBase/<branch>.
\* Variant: a branch or path that exists is taken over.
createWorktreeFails_never(S, branch) == FALSE

createWorktreeFails(S, branch) == branch \in S.branches \/ branch \in S.worktrees

createWorktree(S, branch) ==
  [S EXCEPT !.branches = @ \cup {branch}, !.worktrees = @ \cup {branch}]

\* `git worktree remove <path> --force` fails when path is no worktree.
removeWorktreeFails(S, path) == path \notin S.worktrees

removeWorktree(S, path) == [S EXCEPT !.worktrees = @ \ {path}]

\* ------------------------------------------------------------- vp/agent.ts
ActiveCount(S) == Cardinality({t \in Threads : S.reg[t].status = "active"})

\* Variant: sessions that are done are counted as well.
CapReached_countsAll(S) ==
  Cardinality({t \in Threads : S.reg[t].status # "none"}) >= MAX_WORKERS

CapReached(S) == ActiveCount(S) >= MAX_WORKERS

start_worker(S, branch_name) ==
  IF CapReached(S)
    THEN [S EXCEPT !.ret = [op |-> "start_worker", thread |-> BogusId,
                            outcome |-> "Cannot start worker",
                            active |-> ActiveCount(S), max |-> MAX_WORKERS]]
  ELSE IF createWorktreeFails(S, branch_name)
    THEN Throw(S, "start_worker", BogusId, "git worktree add failed")
  ELSE startSession(createWorktree(S, branch_name),
                    [op |-> "start_worker", branch |-> branch_name])

\* Variant: a worker that is done is continued like an active one.
continue_worker_noStatusCheck(S, worker_id, approve, message) ==
  IF worker_id \notin Threads \/ S.reg[worker_id].status = "none"
    THEN [S EXCEPT !.ret = [op |-> "continue_worker", thread |-> worker_id,
                            outcome |-> "not found"]]
  ELSE
    LET S1 == continueSession(S, worker_id, approve, message,
                              [op |-> "continue_worker"])
    IN IF S1.ret.outcome \in {"Session not found", "No pending permission"}
         THEN [S1 EXCEPT !.reg[worker_id].status = "done",
                         !.ret = [op |-> "continue_worker", thread |-> worker_id,
                                  outcome |-> "finished (session ended)"]]
         ELSE S1

continue_worker(S, worker_id, approve, message) ==
  IF worker_id \notin Threads \/ S.reg[worker_id].status = "none"
    THEN [S EXCEPT !.ret = [op |-> "continue_worker", thread |-> worker_id,
                            outcome |-> "not found"]]
  ELSE IF S.reg[worker_id].status # "active"
    THEN [S EXCEPT !.ret = [op |-> "continue_worker", thread |-> worker_id,
                            outcome |-> "is done"]]
  ELSE
    LET S1 == continueSession(S, worker_id, approve, message,
                              [op |-> "continue_worker"])
    IN IF S1.ret.outcome \in {"Session not found", "No pending permission"}
         THEN [S1 EXCEPT !.reg[worker_id].status = "done",
                         !.ret = [op |-> "continue_worker", thread |-> worker_id,
                                  outcome |-> "finished (session ended)"]]
         ELSE S1

\* Variant: the status written by kill_worker is active.
kill_worker_reactivates(S, worker_id) ==
  IF worker_id \notin Threads \/ S.reg[worker_id].status = "none"
    THEN [S EXCEPT !.ret = [op |-> "kill_worker", thread |-> worker_id,
                            outcome |-> "not found"]]
  ELSE
    LET session == S.reg[worker_id]
        S1 == killSession(S, worker_id)
        S2 == IF removeWorktreeFails(S1, session.branch)
                THEN S1
                ELSE removeWorktree(S1, session.branch)
    IN [S2 EXCEPT !.reg[worker_id].status = "active",
                  !.ret = [op |-> "kill_worker", thread |-> worker_id,
                           outcome |-> "killed"]]

\* Variant: a failure of removeWorktree is thrown to the caller.
kill_worker_propagates(S, worker_id) ==
  IF worker_id \notin Threads \/ S.reg[worker_id].status = "none"
    THEN [S EXCEPT !.ret = [op |-> "kill_worker", thread |-> worker_id,
                            outcome |-> "not found"]]
  ELSE
    LET session == S.reg[worker_id]
        S1 == killSession(S, worker_id)
    IN IF removeWorktreeFails(S1, session.branch)
         THEN Throw(S1, "kill_worker", worker_id, "git worktree remove failed")
         ELSE [removeWorktree(S1, session.branch)
                 EXCEPT !.reg[worker_id].status = "done",
                        !.ret = [op |-> "kill_worker", thread |-> worker_id,
                                 outcome |-> "killed"]]

kill_worker(S, worker_id) ==
  IF worker_id \notin Threads \/ S.reg[worker_id].status = "none"
    THEN [S EXCEPT !.ret = [op |-> "kill_worker", thread |-> worker_id,
                            outcome |-> "not found"]]
  ELSE
    LET session == S.reg[worker_id]
        S1 == killSession(S, worker_id)
        S2 == IF removeWorktreeFails(S1, session.branch)
                THEN S1
                ELSE removeWorktree(S1, session.branch)
    IN [S2 EXCEPT !.reg[worker_id].status = "done",
                  !.ret = [op |-> "kill_worker", thread |-> worker_id,
                           outcome |-> "killed"]]

\* --- tool calls of the VP; the calls of one step run concurrently, so a
\* call may start while others are suspended in startSession/continueSession.
Registered == {t \in Threads : reg[t].status # "none"}

StartWorkerCall(branch_name) ==
  /\ issuing
  /\ nextThread < MaxSessions \/ CapReached(Cur)
       \/ createWorktreeFails(Cur, branch_name)
  /\ Becomes(start_worker(S0, branch_name))

ContinueWorkerCall(worker_id, approve, message) ==
  /\ issuing
  /\ Becomes(continue_worker(S0, worker_id, approve, message))

KillWorkerCall(worker_id) ==
  /\ issuing
  /\ Becomes(kill_worker(S0, worker_id))

\* A branch name nobody used before.
FreshBranch == Cardinality(branches) + 1

Suspended == {t \in Threads : blockWaiter[t].op # "none"}

\* generateText runs the tool calls of one step together and asks the model
\* for the next step when all of them have returned.  The calls of a step
\* start within one tick, before any event of a runtime is handled.
StepIssued ==
  /\ issuing
  /\ Becomes([S0 EXCEPT !.issuing = FALSE])

NextStep ==
  /\ ~issuing /\ Suspended = {}
  /\ Becomes([S0 EXCEPT !.issuing = TRUE])

\* Admission control: up to MaxSessions workers on fresh branches, whose
\* runtimes report a result or end without asking for a permission, and are
\* closed by kill_worker.
CapNext ==
  \/ StartWorkerCall(FreshBranch) /\ Unlogged /\ LoopIdle
  \/ \E id \in Registered, approve \in BOOLEAN :
       ContinueWorkerCall(id, approve, NoMessage) /\ Unlogged /\ LoopIdle
  \/ \E id \in Registered : KillWorkerCall(id) /\ Unlogged /\ LoopIdle
  \/ StepIssued /\ Unlogged /\ LoopIdle
  \/ NextStep /\ Unlogged /\ LoopIdle
  \/ \E t \in Threads : ~issuing /\ RuntimeResult(t) /\ Unlogged /\ LoopIdle
  \/ \E t \in Threads : ~issuing /\ StreamEnd(t) /\ Unlogged /\ LoopIdle
  \/ \E t \in Threads : ~issuing /\ StreamClosed(t) /\ Unlogged /\ LoopIdle

CapSpec == Init /\ [][CapNext]_vars

\* ------------------------------------------------------- claims C5, C6
\* C5: the number of registry sessions with status active never exceeds
\* MAX_WORKERS.
C5_ActiveWithinCap == ActiveCount(Cur) <= MAX_WORKERS

\* C6: a start_worker call made with MAX_WORKERS active sessions fails with
\* an error that names the count and the cap, and creates no worktree, no
\* branch, no runtime and no registry entry; with fewer active sessions it is
\* not rejected by the cap, whatever the number of done sessions.
C6_CapRejectsWithoutEffect ==
  [][StartWorkerCall(FreshBranch) =>
       /\ ActiveCount(Cur) = MAX_WORKERS =>
            /\ ret' = [op |-> "start_worker", thread |-> BogusId,
                       outcome |-> "Cannot start worker",
                       active |-> MAX_WORKERS, max |-> MAX_WORKERS]
            /\ UNCHANGED <<worktrees, branches, rt, sessions, nextThread, reg,
                           blockWaiter>>
       /\ ActiveCount(Cur) < MAX_WORKERS =>
            /\ ret'.outcome # "Cannot start worker"
            /\ nextThread' = nextThread + 1]_vars

C6_Witness ==
  /\ ret.op = "start_worker" /\ ret.outcome = "Cannot start worker"
  /\ ret.active = MAX_WORKERS
  /\ \E t \in Threads : reg[t].status = "done"

\* ------------------------------------------------------------ claim C12
\* A block that ends a session: the final result or an error.
TerminalBlock(b) == b.kind \in {"done", "error"}

\* C12: when a start_worker or continue_worker call has returned a terminal
\* block, and when a kill_worker call has returned, the registry status of
\* the session is done.
C12_TerminalBlockMarksDone ==
  /\ (ret.op \in {"start_worker", "continue_worker"} /\ ret.outcome = "ok")
       => (TerminalBlock(ret.block) => reg[ret.thread].status = "done")
  /\ (ret.op = "kill_worker" /\ ret.outcome = "killed")
       => reg[ret.thread].status = "done"

\* ------------------------------------------------------------- vp/loop.ts
TickMs == 300000        \* the clock advances in steps of five minutes
TokenStep == 75000      \* usage.totalTokens of a step that used tokens
Usages == {0, TokenStep}

\* 'CONTEXT LIMIT APPROACHING. Before restart you MUST: ...'
FlushDirective == "flush"

\* Inside one of the two generateText calls of runVP.
InGenerate == pc \in {"turn", "flush"}

\* Date.now() - startTime > VP_TIMEOUT_MS
TimedOut == now - startTime > VP_TIMEOUT_MS

\* totalTokens > TOKEN_LIMIT
OverLimit(tokens) == tokens > TOKEN_LIMIT

\* totalTokens += usage.totalTokens; the counter is followed until it has
\* passed the limit.
AddUsage(u) == IF OverLimit(totalTokens) THEN totalTokens ELSE totalTokens + u

\* The body of runVP down to the loop: a new ClaudeCodeClient, whose sessions
\* map is empty, and a new VPState, whose registry is empty.  The runtimes,
\* the session objects their consumers hold and the worktrees are not
\* touched.
runVP(S) ==
  [S EXCEPT !.sessions = {},
            !.reg = [t \in Threads |-> NoWorker],
            !.issuing = TRUE]

\* while (!state.done), the timeout check, and the start of generateText.
LoopHead ==
  /\ pc = "check"
  /\ IF done
       THEN pc' = "ended" /\ lastEvent' = "done"
     ELSE IF TimedOut
       THEN pc' = "ended" /\ lastEvent' = "vp_timeout"
     ELSE pc' = "turn" /\ lastEvent' = "turn"
  /\ Becomes([S0 EXCEPT !.issuing = TRUE])
  /\ UNCHANGED <<done, totalTokens, now, startTime, lastMessage>>

\* mark_done.execute
MarkDoneCall ==
  /\ InGenerate /\ issuing
  /\ done' = TRUE
  /\ Becomes([S0 EXCEPT !.ret = [op |-> "mark_done", thread |-> BogusId,
                                  outcome |-> "ok"]])
  /\ UNCHANGED <<pc, totalTokens, now, startTime, lastMessage, lastEvent>>

\* A step whose tool calls have all returned: onStepFinish counts its tokens
\* (the generateText call of the flush has no onStepFinish).
StepFinish ==
  /\ InGenerate
  /\ NextStep
  /\ \E u \in Usages :
       totalTokens' = IF pc = "turn" THEN AddUsage(u) ELSE totalTokens
  /\ UNCHANGED <<pc, done, now, startTime, lastMessage, lastEvent>>

\* Variant: the counter is not looked at when a turn is complete.
afterTurn_noFlush(tokens, d) == IF ~d THEN "sleep" ELSE "check"

\* Where runVP goes when a turn is complete: into the flush when the counter
\* has passed the limit, else to sleep, or to the loop condition when done.
afterTurn(tokens, d) ==
  IF OverLimit(tokens) THEN "flush"
  ELSE IF ~d THEN "sleep"
  ELSE "check"

\* generateText returns: the last step made no tool call.  Lines 154-207 up
\* to the next await.
TurnComplete ==
  /\ pc = "turn" /\ issuing /\ Suspended = {}
  /\ \E u \in Usages :
       /\ totalTokens' = AddUsage(u)
       /\ pc' = afterTurn(AddUsage(u), done)
       /\ IF pc' = "flush"
            THEN /\ lastMessage' = FlushDirective
                 /\ lastEvent' = "context_limit"
            ELSE /\ lastMessage' = "response"
                 /\ lastEvent' = "vp_turn_complete"
  /\ Becomes(S0)
  /\ UNCHANGED <<done, now, startTime>>

\* generateText throws: the catch clause of the turn, then `continue`.
TurnThrow ==
  /\ pc = "turn" /\ Suspended = {}
  /\ pc' = "check"
  /\ lastMessage' = "error"
  /\ lastEvent' = "vp_error"
  /\ Becomes([S0 EXCEPT !.issuing = TRUE])
  /\ UNCHANGED <<done, totalTokens, now, startTime>>

\* sleep(5000) is over: 'Continue.' (or the pending images) is pushed.
SleepDone ==
  /\ pc = "sleep"
  /\ pc' = "check"
  /\ lastMessage' = "continue"
  /\ Becomes(S0)
  /\ UNCHANGED <<done, totalTokens, now, startTime, lastEvent>>

\* The generateText call of the flush returns: vp_restart is logged and
\* runVP is invoked again, with its own startTime, totalTokens and state.
FlushComplete ==
  /\ pc = "flush" /\ issuing /\ Suspended = {}
  /\ Becomes(runVP(S0))
  /\ pc' = "check"
  /\ done' = FALSE
  /\ totalTokens' = 0
  /\ startTime' = now
  /\ lastMessage' = "context"
  /\ lastEvent' = "vp_restart"
  /\ UNCHANGED now

\* The generateText call of the flush throws: no catch clause encloses it,
\* so the error leaves runVP through its finally clause.
FlushThrow ==
  /\ pc = "flush" /\ Suspended = {}
  /\ pc' = "crashed"
  /\ lastEvent' = "crash"
  /\ Becomes(S0)
  /\ UNCHANGED <<done, totalTokens, now, startTime, lastMessage>>

\* Time passes while runVP awaits generateText (seen between two steps) or
\* sleep.
Tick ==
  /\ pc \in {"turn", "flush", "sleep"} /\ issuing
  /\ now < MaxTicks * TickMs
  /\ now' = now + TickMs
  /\ Becomes(S0)
  /\ UNCHANGED <<pc, done, totalTokens, startTime, lastMessage, lastEvent>>

LoopNext ==
  \/ LoopHead /\ Unlogged
  \/ /\ InGenerate /\ nextThread < MaxLoopWorkers
     /\ StartWorkerCall(FreshBranch) /\ Unlogged /\ LoopIdle
  \/ \E id \in Registered, approve \in BOOLEAN :
       /\ InGenerate
       /\ ContinueWorkerCall(id, approve, NoMessage) /\ Unlogged /\ LoopIdle
  \/ \E id \in Registered :
       InGenerate /\ KillWorkerCall(id) /\ Unlogged /\ LoopIdle
  \/ MarkDoneCall /\ Unlogged
  \/ InGenerate /\ StepIssued /\ Unlogged /\ LoopIdle
  \/ StepFinish /\ Unlogged
  \/ TurnComplete /\ Unlogged
  \/ TurnThrow /\ Unlogged
  \/ SleepDone /\ Unlogged
  \/ FlushComplete /\ Unlogged
  \/ FlushThrow /\ Unlogged
  \/ Tick /\ Unlogged
  \/ \E t \in Threads : ~issuing /\ RuntimeResult(t) /\ Unlogged /\ LoopIdle
  \/ \E t \in Threads : ~issuing /\ StreamEnd(t) /\ Unlogged /\ LoopIdle
  \/ \E t \in Threads : ~issuing /\ StreamClosed(t) /\ Unlogged /\ LoopIdle

\* runVP with its clock and its tools: up to MaxLoopWorkers workers are
\* started, whose runtimes report a result or end without asking for a
\* permission.
LoopSpec == Init /\ [][LoopNext]_vars

\* runVP and the registry: the clock stands still, and the runtime of a
\* worker asks for one permission at most.
RegistryNext ==
  \/ LoopHead /\ Unlogged
  \/ /\ InGenerate /\ nextThread < MaxLoopWorkers
     /\ StartWorkerCall(FreshBranch) /\ Unlogged /\ LoopIdle
  \/ \E id \in Registered, approve \in BOOLEAN, message \in {NoMessage, "X"} :
       /\ InGenerate
       /\ ContinueWorkerCall(id, approve, message) /\ Unlogged /\ LoopIdle
  \/ \E id \in Registered :
       InGenerate /\ KillWorkerCall(id) /\ Unlogged /\ LoopIdle
  \/ MarkDoneCall /\ Unlogged
  \/ InGenerate /\ StepIssued /\ Unlogged /\ LoopIdle
  \/ StepFinish /\ Unlogged
  \/ TurnComplete /\ Unlogged
  \/ TurnThrow /\ Unlogged
  \/ SleepDone /\ Unlogged
  \/ FlushComplete /\ Unlogged
  \/ FlushThrow /\ Unlogged
  \/ \E t \in Threads :
       /\ ~issuing /\ RaisedBy(t) = {}
       /\ RuntimeCanUseTool(t) /\ Unlogged /\ LoopIdle
  \/ \E t \in Threads : ~issuing /\ RuntimeResult(t) /\ Unlogged /\ LoopIdle
  \/ \E t \in Threads : ~issuing /\ StreamEnd(t) /\ Unlogged /\ LoopIdle
  \/ \E t \in Threads : ~issuing /\ StreamClosed(t) /\ Unlogged /\ LoopIdle

RegistrySpec == Init /\ [][RegistryNext]_vars

\* ------------------------------------------------------ claims C13, C14
\* C13: a registry session whose status is done is not active after any
\* step: not after a tool call, not after a restart of runVP.
C13_StatusNeverReverts ==
  [][\A t \in Threads :
       reg[t].status = "done" => reg'[t].status # "active"]_vars

C13_Witness ==
  /\ ret.op = "continue_worker" /\ ret.outcome = "is done"
  /\ reg[ret.thread].status = "done"
  /\ StreamOver(ret.thread) \/ rt[ret.thread] \in {"closed", "gone"}

\* C14: the restart of runVP keeps every active session in the registry,
\* active, and keeps its session in the client's sessions map.
C14_RestartKeepsSessions ==
  [][FlushComplete =>
       \A t \in Threads :
         reg[t].status = "active"
           => /\ reg'[t].status = "active"
              /\ t \in sessions => t \in sessions']_vars

\* ------------------------------------------------- claims C15 .. C18
\* The step in which runVP is invoked again.
Restarts == lastEvent' = "vp_restart" /\ lastEvent # "vp_restart"

C16_DoneEndsLoop ==
  [][/\ (done /\ pc' # pc) => pc' \in {"check", "ended"}
     /\ done => ~Restarts
     /\ (pc' # pc /\ pc' \in {"ended", "crashed"})
          => pc' = "ended" /\ (done \/ TimedOut)]_vars

\* The time since runVP was first invoked (at now = 0) exceeds the timeout.
LifetimeExceeded == now > VP_TIMEOUT_MS

\* C17: when the time since runVP was first invoked exceeds the timeout,
\* the loop condition leads to the end of the loop, with the timeout logged
\* unless done is set, and runVP is not invoked again.
C17_TimeoutBoundsLifetime ==
  [][LifetimeExceeded
       => /\ (pc = "check" /\ pc' # pc)
               => pc' = "ended" /\ (done \/ lastEvent' = "vp_timeout")
          /\ ~Restarts]_vars

\* C18: a generateText call that throws leaves runVP running: vp_error is
\* logged, the failure notice is the last message, and the loop condition
\* is evaluated next; from there the next turn starts unless done is set or
\* the timeout has fired.
C18_TurnErrorFedBack ==
  [][/\ (TurnThrow \/ FlushThrow)
          => /\ pc' = "check"
             /\ lastMessage' = "error"
             /\ lastEvent' = "vp_error"
     /\ (pc = "check" /\ lastMessage = "error" /\ pc' # pc
           /\ ~done /\ ~TimedOut)
          => pc' = "turn"]_vars

\* ------------------------------------------------------ claims C21, C22
\* C21: in every state, a continueSession call that denies the pending
\* request of a session, made directly or through continue_worker, invokes
\* the resolve of that request once, with deny and the reason "X" when "X"
\* is given, and with deny and a non-empty message when no reason is given;
\* the action of the request is not performed.
DenialOf(S, r, message) ==
  /\ S.sent.req = r
  /\ S.sent.result.behavior = "deny"
  /\ message = "X" => S.sent.result.message = "X"
  /\ S.sent.result.message \notin {"", NoMessage}
  /\ DOMAIN S.sent.result = {"behavior", "message"}
  /\ S.resolveCalls[r] = 1
  /\ r \notin S.performed

C21_DenialRoundTrip ==
  \A t \in sessions, message \in {NoMessage, "X"} :
    pendingPermission[t].id # 0 =>
      /\ DenialOf(continueSession(S0, t, FALSE, message,
                                  [op |-> "continueSession"]),
                  pendingPermission[t].id, message)
      /\ reg[t].status = "active" =>
           DenialOf(continue_worker(S0, t, FALSE, message),
                    pendingPermission[t].id, message)

C21_Witness ==
  /\ ret.op = "continue_worker" /\ ret.outcome = "ok"
  /\ sent.req \in denied
  /\ sent.result = [behavior |-> "deny", message |-> "X"]
  /\ rt[ret.thread] \in {"resulted", "ended"}

\* C22: a continueSession call with approve=true passes to the resolve of
\* the pending request allow with the payload the request was raised with,
\* and that is the only time the resolve of the request is invoked.
C22_ApprovalEchoesPayload ==
  [][\A t \in Threads, message \in Messages :
       (/\ t \in sessions /\ pendingPermission[t].id # 0
        /\ ContinueSessionCall(t, TRUE, message))
         => LET r == pendingPermission[t].id
            IN /\ sent' = [req |-> r,
                           result |-> [behavior |-> "allow",
                                       updatedInput |-> ToolInputOf(r)]]
               /\ resolveCalls[r] = 0 /\ resolveCalls'[r] = 1
               /\ r \notin denied']_vars

C22_Witness ==
  /\ sent.req = 2 /\ requests[1] = requests[2]
  /\ sent.result.behavior = "allow"
  /\ sent.result.updatedInput = ToolInputOf(2)
  /\ 2 \in performed /\ 1 \in denied

\* ------------------------------------------------------------ claim C23
Live(t) == rt[t] \in {"running", "blocked", "resulted"}

\* The worker was killed: kill_worker has removed its session from the
\* client and set its status.
WorkerKilled(id) == reg[id].status = "done" /\ id \notin sessions /\ id \in known \cup Registered

BranchNames == 1..MaxPairWorkers

\* Workers side by side: up to MaxPairWorkers workers are started; a runtime
\* asks for one permission at most, and runs until its worker is killed.
PairNext ==
  \/ /\ nextThread < MaxPairWorkers
     /\ StartWorkerCall(FreshBranch) /\ Unlogged /\ LoopIdle
  \/ \E id \in Registered, approve \in BOOLEAN :
       ContinueWorkerCall(id, approve, NoMessage) /\ Unlogged /\ LoopIdle
  \/ \E id \in Registered : KillWorkerCall(id) /\ Unlogged /\ LoopIdle
  \/ StepIssued /\ Unlogged /\ LoopIdle
  \/ NextStep /\ Unlogged /\ LoopIdle
  \/ \E t \in Threads :
       /\ ~issuing /\ RaisedBy(t) = {}
       /\ RuntimeCanUseTool(t) /\ Unlogged /\ LoopIdle
  \/ \E t \in Threads : ~issuing /\ StreamClosed(t) /\ Unlogged /\ LoopIdle

PairSpec == Init /\ [][PairNext]_vars

\* Branch names: up to MaxPairWorkers workers are started on names the VP
\* chooses freely, also names in use; their runtimes report a result, and
\* they are killed.
BranchNext ==
  \/ \E branch_name \in BranchNames :
       /\ nextThread < MaxPairWorkers \/ createWorktreeFails(Cur, branch_name)
       /\ StartWorkerCall(branch_name) /\ Unlogged /\ LoopIdle
  \/ \E id \in Registered : KillWorkerCall(id) /\ Unlogged /\ LoopIdle
  \/ StepIssued /\ Unlogged /\ LoopIdle
  \/ NextStep /\ Unlogged /\ LoopIdle
  \/ \E t \in Threads : ~issuing /\ RuntimeResult(t) /\ Unlogged /\ LoopIdle
  \/ \E t \in Threads : ~issuing /\ StreamClosed(t) /\ Unlogged /\ LoopIdle

BranchSpec == Init /\ [][BranchNext]_vars

\* What belongs to session u alone.
OwnState(S, u) ==
  <<S.pendingPermission[u], S.blockQueue[u], S.blockWaiter[u], S.finished[u],
    S.reg[u], S.collectedText[u], S.rt[u], u \in S.sessions>>

\* C24: in every state, continueSession, killSession, continue_worker and
\* kill_worker on one session leave the pending request, the queue, the
\* waiter, the finished flag and the registry entry of every other session as
\* they are.
C24_OtherSessionsUntouched ==
  \A t \in 1..nextThread, u \in 1..nextThread :
    t # u =>
      /\ OwnState(killSession(S0, t), u) = OwnState(S0, u)
      /\ OwnState(kill_worker(S0, t), u) = OwnState(S0, u)
      /\ \A approve \in BOOLEAN, message \in Messages :
           /\ OwnState(continueSession(S0, t, approve, message,
                                       [op |-> "continueSession"]), u)
                = OwnState(S0, u)
           /\ OwnState(continue_worker(S0, t, approve, message), u)
                = OwnState(S0, u)

C24_Witness ==
  /\ ret.op = "kill_worker" /\ ret.outcome = "killed"
  /\ \E r \in abandoned : requests[r] = ret.thread
  /\ \E u \in Threads \ {ret.thread} :
       /\ reg[u].status = "active" /\ u \in sessions
       /\ pendingPermission[u].id # 0 /\ rt[u] = "blocked" /\ ~finished[u]

Active == {t \in Threads : reg[t].status = "active"}

Undelivered(t) == Len(ready[t]) - Len(delivered[t])

Holds(text, f) == \E i \in 1..Len(text) : text[i] = f

BlocksWith(f) ==
  UNION {{<<t, n>> : n \in {k \in 1..Len(ready[t]) : Holds(ready[t][k].text, f)}} :
           t \in Threads}

BuffersWith(f) == {t \in Threads : Holds(collectedText[t], f)}

\* C27: a fragment the runtime has emitted is in the buffer of its session
\* or in the text of one ready block, never in both and never in two blocks;
\* the block that becomes ready takes the whole buffer, so a fragment is in
\* the first block that becomes ready after it; and narration is not left
\* behind where no call can read it: not in a queued block, not in the buffer
\* of a session whose stream is over.
C27_FragmentInOneBlock ==
  /\ [](\A f \in 1..nfrag :
          Cardinality(BlocksWith(f)) + Cardinality(BuffersWith(f)) = 1)
  /\ [][\A t \in Threads :
          Len(ready'[t]) # Len(ready[t])
            => /\ Len(ready'[t]) = Len(ready[t]) + 1
               /\ ready'[t][Len(ready'[t])].text = collectedText[t]]_vars
  /\ [](\A t \in Threads : \A i \in 1..Len(blockQueue[t]) :
          blockQueue[t][i].text # <<>> => pendingPermission[t].id # 0)
  /\ [](\A t \in Threads :
          (rt[t] \in {"ended", "gone"} /\ collectedText[t] # <<>>)
            => pendingPermission[t].id # 0 /\ t \in sessions)

C27_Witness ==
  \E t \in Threads :
    /\ Len(delivered[t]) = 2
    /\ delivered[t][1].kind = "perm" /\ delivered[t][1].text = <<>>
    /\ delivered[t][2].text = <<1>>
    /\ collectedText[t] = <<>> /\ nfrag = 1

\* ------------------------------------------------------------ claim C28
\* C28: continue_worker on an id the registry does not hold returns 'not
\* found' and changes nothing; continue_worker on an active worker whose
\* runtime is executing, so that no request is pending, returns the error of
\* continueSession, by its name, and leaves the registry entry of the worker
\* as it was.
C28_ContinueFailureNamed ==
  /\ [](\A id \in Threads \cup {BogusId}, approve \in BOOLEAN :
          (id \notin Threads \/ reg[id].status = "none")
            => LET S1 == continue_worker(S0, id, approve, NoMessage)
               IN /\ S1.ret = [op |-> "continue_worker", thread |-> id,
                               outcome |-> "not found"]
                  /\ [S1 EXCEPT !.ret = NoRet] = S0)
  /\ [][\A id \in Threads, approve \in BOOLEAN, message \in Messages :
          (/\ reg[id].status = "active" /\ id \in sessions
           /\ pendingPermission[id].id = 0 /\ rt[id] = "running"
           /\ ContinueWorkerCall(id, approve, message))
            => /\ ret'.outcome = "No pending permission"
               /\ reg'[id] = reg[id]]_vars

\* ------------------------------------------------------ claims C29, C30
\* C29: a start_worker call that is given the name of a branch that exists,
\* and that the cap does not reject, has createWorktree succeed: the call
\* does not fail on git, the branch has its worktree afterwards and the
\* session is created.
C29_CreateTwiceSucceeds ==
  [][\A branch_name \in BranchNames :
       (/\ branch_name \in branches /\ ~CapReached(Cur)
        /\ StartWorkerCall(branch_name))
         => /\ ret'.outcome # "git worktree add failed"
            /\ branch_name \in worktrees'
            /\ nextThread' = nextThread + 1]_vars

\* C30: removeWorktree does not fail on a worktree that was removed already.
C30_RemoveRemovedSucceeds ==
  \A path \in branches \ worktrees : ~removeWorktreeFails(Cur, path)

\* ---------------------------------------------------------- event-queue.ts
NoResolve == [call |-> 0]

\* The value of a call is <<item>>, or <<>> for null and for a call that has
\* not returned.  A promise settles once: settling the promise of a call that
\* has returned has no effect.
Settle(S, c, value) ==
  IF S.calls[c].status = "pending"
    THEN [S EXCEPT !.calls[c].status = "returned", !.calls[c].value = value]
    ELSE S

\* Invoking the function stored in this.resolve: the resolve of a dequeue
\* promise, or the wrapper of tryDequeue, which clears its timer first.
InvokeResolve(S, r, item) ==
  LET S1 == IF r.kind = "tryDequeue"
              THEN [S EXCEPT !.timers = @ \ {r.call}]
              ELSE S
  IN Settle([S1 EXCEPT !.handed = Append(@, item)], r.call, <<item>>)

\* Variant: the item handed to the waiting call is stored as well.
push_alsoStored(S, item) ==
  IF S.resolve.call # 0
    THEN InvokeResolve([S EXCEPT !.resolve = NoResolve,
                                 !.queue = Append(@, item)], S.resolve, item)
    ELSE [S EXCEPT !.queue = Append(@, item)]

push(S, item) ==
  IF S.resolve.call # 0
    THEN InvokeResolve([S EXCEPT !.resolve = NoResolve], S.resolve, item)
    ELSE [S EXCEPT !.queue = Append(@, item)]

\* A call of kind dequeue or tryDequeue: it returns the head of the queue, or
\* stores its resolve in this.resolve, whatever is stored there.
Take(S, kind) ==
  LET c == Len(S.calls) + 1
  IN IF Len(S.queue) > 0
       THEN [S EXCEPT !.calls = Append(@, [kind |-> kind, status |-> "returned",
                                           value |-> <<Head(S.queue)>>,
                                           waited |-> FALSE]),
                      !.handed = Append(@, Head(S.queue)),
                      !.queue = Tail(@)]
       ELSE [S EXCEPT !.calls = Append(@, [kind |-> kind, status |-> "pending",
                                           value |-> <<>>, waited |-> TRUE]),
                      !.resolve = [call |-> c, kind |-> kind],
                      !.timers = IF kind = "tryDequeue" THEN @ \cup {c} ELSE @]

dequeue(S) == Take(S, "dequeue")

tryDequeue(S) == Take(S, "tryDequeue")

\* Variant: the timer leaves this.resolve as it is.
timeout_keepsResolve(S, c) ==
  Settle([S EXCEPT !.timers = @ \ {c}], c, <<>>)

\* The callback of the timer of tryDequeue call c.
timeout(S, c) ==
  Settle([S EXCEPT !.timers = @ \ {c}, !.resolve = NoResolve], c, <<>>)

PushCall ==
  /\ npush < MaxItems
  /\ Becomes(push([S0 EXCEPT !.npush = @ + 1], npush + 1))

DequeueCall ==
  /\ Len(calls) < MaxCalls
  /\ Becomes(dequeue(S0))

TryDequeueCall ==
  /\ Len(calls) < MaxCalls
  /\ Becomes(tryDequeue(S0))

TimerFires(c) ==
  /\ c \in timers
  /\ Becomes(timeout(S0, c))

QueueNext ==
  \/ PushCall /\ Unlogged /\ LoopIdle
  \/ DequeueCall /\ Unlogged /\ LoopIdle
  \/ TryDequeueCall /\ Unlogged /\ LoopIdle
  \/ \E c \in 1..MaxCalls : TimerFires(c) /\ Unlogged /\ LoopIdle

\* An EventQueue with producers and consumers that call it in any order.
QueueSpec == Init /\ [][QueueNext]_vars

Unknown(id) == id \notin Threads \/ reg[id].status = "none"

C32_RefusedCallsChangeNothing ==
  \A id \in Threads \cup {BogusId}, approve \in BOOLEAN,
     message \in {NoMessage, "X"} :
    LET C == continue_worker(S0, id, approve, message)
        K == kill_worker(S0, id)
    IN /\ Unknown(id)
            => /\ C.ret.outcome = "not found" /\ [C EXCEPT !.ret = NoRet] = S0
               /\ K.ret.outcome = "not found" /\ [K EXCEPT !.ret = NoRet] = S0
       /\ (~Unknown(id) /\ reg[id].status = "done")
            => C.ret.outcome = "is done" /\ [C EXCEPT !.ret = NoRet] = S0

C32_Witness ==
  /\ ret.op = "continue_worker" /\ ret.outcome = "is done"
  /\ sent = NoResult
  /\ pendingPermission[ret.thread].id # 0 /\ ret.thread \notin sessions
  /\ Unknown(MaxSessions)

\* ---------------------------------------------------- claims C33, C34, C39
PushOrder == [i \in 1..npush |-> i]

Holders(item) == {c \in 1..Len(calls) : calls[c].value = <<item>>}

\* C33: the EventQueue delivers the items in the order of their push, each
\* exactly once: the items handed out so far, followed by the stored ones, are
\* the items pushed, in order, and each item handed out is the value of exactly
\* one call; an item pushed while a call waits in this.resolve is handed to
\* that call and is not stored, any other is appended to the stored ones.
C33_FifoExactlyOnce ==
  /\ [](/\ handed \o queue = PushOrder
        /\ \A i \in 1..Len(handed) : Cardinality(Holders(handed[i])) = 1)
  /\ [][npush' = npush + 1 =>
          IF resolve.call # 0
            THEN /\ calls'[resolve.call].status = "returned"
                 /\ calls'[resolve.call].value = <<npush'>>
                 /\ queue' = queue
            ELSE /\ queue' = Append(queue, npush')
                 /\ calls' = calls]_vars

C33_Witness ==
  /\ Len(calls) = 2
  /\ calls[1] = [kind |-> "dequeue", status |-> "returned", value |-> <<1>>,
                 waited |-> TRUE]
  /\ calls[2] = [kind |-> "dequeue", status |-> "returned", value |-> <<2>>,
                 waited |-> FALSE]
  /\ queue = <<3>>

\* C34: a tryDequeue call that waits keeps its timer until it returns, and the
\* timer's callback makes it return null and leaves this.resolve empty; the
\* function in this.resolve always belongs to a call that has not returned,
\* so that an item pushed after a timeout is stored; an item pushed while a
\* tryDequeue call waits in this.resolve is returned by that call and cancels
\* its timer, and no call that has returned has a timer left.
C34_TimeoutLeavesNoWaiter ==
  /\ [](/\ resolve.call # 0 => calls[resolve.call].status = "pending"
        /\ \A c \in 1..Len(calls) :
             /\ c \in timers => calls[c].status = "pending"
             /\ (calls[c].kind = "tryDequeue" /\ calls[c].status = "pending")
                  => c \in timers)
  /\ [][\A c \in timers :
          (c \notin timers' /\ npush' = npush)
            => /\ calls'[c].status = "returned"
               /\ calls'[c].value = <<>>
               /\ resolve' = NoResolve]_vars
  /\ [][(npush' = npush + 1 /\ resolve.call # 0)
          => /\ calls'[resolve.call].value = <<npush'>>
             /\ resolve.call \notin timers'
             /\ resolve' = NoResolve]_vars

C34_Witness ==
  /\ Len(calls) = 3
  /\ calls[1] = [kind |-> "tryDequeue", status |-> "returned", value |-> <<>>,
                 waited |-> TRUE]
  /\ calls[2] = [kind |-> "dequeue", status |-> "returned", value |-> <<1>>,
                 waited |-> FALSE]
  /\ calls[3] = [kind |-> "tryDequeue", status |-> "returned",
                 value |-> <<2>>, waited |-> TRUE]
  /\ timers = {}

\* C39: no call waits while an item is stored: when two calls wait on an empty
\* queue and two items are pushed, each call returns one of them.
C39_EveryWaiterServed ==
  (\E c \in 1..Len(calls) : calls[c].status = "pending") => queue = <<>>

\* ------------------------------------------------------------ claim C35
\* C35: the runtime of a worker whose registry status is done is not executing
\* and not awaiting a decision.
C35_DoneIsNotLive ==
  \A t \in Threads :
    reg[t].status = "done" => rt[t] \notin {"running", "blocked"}

\* ------------------------------------------------------------ claim C36
Owned(b) == \E t \in Threads : reg[t].status # "none" /\ reg[t].branch = b

Starting(b) ==
  \E t \in Threads :
    blockWaiter[t].op = "start_worker" /\ blockWaiter[t].branch = b

\* C36: every worktree belongs to a worker of the registry, or to a
\* start_worker call that has yet to return, and every runtime that is
\* executing or awaiting a decision is the runtime of a worker of the registry
\* or of such a call.
C36_WorkspacesOwned ==
  /\ \A b \in worktrees : Owned(b) \/ Starting(b)
  /\ \A t \in Threads :
       rt[t] \in {"running", "blocked"}
         => reg[t].status # "none" \/ blockWaiter[t].op = "start_worker"

\* ------------------------------------------------------------ claim C37
Probe == [op |-> "continueSession", probe |-> TRUE]

\* C37: in every state, a continueSession call that installs its waiter in a
\* session, whatever its arguments, finds no waiter installed there, and so
\* does a startSession call in the session it creates; and no step replaces
\* an installed waiter by another one.
C37_OneWaiter ==
  /\ [](\A t \in Threads \cup {BogusId}, approve \in BOOLEAN,
           message \in {NoMessage, "X"} :
          LET C == continueSession(S0, t, approve, message, Probe)
          IN \A u \in Threads :
               C.blockWaiter[u] = Probe => /\ u = t
                                           /\ blockWaiter[u] = NoWaiter)
  /\ [](nextThread < MaxSessions =>
          LET B == startSession(S0, Probe)
          IN \A u \in Threads :
               B.blockWaiter[u] = Probe => blockWaiter[u] = NoWaiter)
  /\ [][\A t \in Threads :
          blockWaiter[t] # NoWaiter
            => blockWaiter'[t] \in {NoWaiter, blockWaiter[t]}]_vars

C37_Witness ==
  /\ ret.op = "continue_worker"
  /\ ret.outcome = "finished (session ended)"
  /\ ret.thread \in sessions
  /\ blockWaiter[ret.thread] = [op |-> "continue_worker"]

\* ------------------------------------------------------------ claim C38
\* C38: while the counter is above the limit no ordinary turn is started: the
\* next generateText call is the one of the flush.
C38_NoTurnOverLimit ==
  [][(OverLimit(totalTokens) /\ pc # "turn") => pc' # "turn"]_vars

====
